---- MODULE Spec2Model ----
(***************************************************************************)
(* The snake game of src/game.js (first script, lines 1-526): the session  *)
(* state, the keydown and mouseup handlers, the frame loop with its        *)
(* catch-up steps, and tick().                                             *)
(*                                                                         *)
(* The source grid is 30 x 20 and the source speed range is 2 .. 24.       *)
(* GRID_W, GRID_H and MAX_FPS are scaled down here so that every placement *)
(* of food and obstacles and every speed can be enumerated; the scaled     *)
(* grid keeps the properties of the source grid that the code relies on:   *)
(* the three start cells fit, and the interior has a cell that is not a    *)
(* start cell.  The source spawns at most 3 obstacles per eat; the cap     *)
(* MaxObstacles is scaled with the grid, so that the interior can hold     *)
(* more free cells than the cap and the eats below and at the cap both     *)
(* occur.  Frames stop draining steps once score reaches MaxScore.         *)
(*                                                                         *)
(* The continuation of musicPlay() after its await and the 200 ms timeout  *)
(* of the game-over jingle are callbacks of their own; they interleave     *)
(* with every input and with the frames that MaxPendingSteps allows.       *)
(*                                                                         *)
(* location.reload() (Escape) ends the page: a behaviour of this module is *)
(* one page load, and a reload starts a new behaviour from Init.           *)
(***************************************************************************)
EXTENDS Integers, Sequences, FiniteSets, TLC

\* ---- bounds of the model ----
GRID_W == 4
GRID_H == 4
MAX_FPS == 4
\* the count passed to spawnObstacles() by an eat (3 in the source)
MaxObstacles == 1
\* most catch-up steps one frame drains
MaxSteps == 2
\* frames drain no further step once score has reached MaxScore
MaxScore == 3
\* most continuations of musicPlay() waiting for actx.resume() at one time
MaxResumes == 1
\* most jingle timeouts pending at one time
MaxTimers == 1
\* most steps a frame drains while a continuation or a timeout is pending
MaxPendingSteps == 0

\* ---- program constants ----
APPLE_MARGIN == 1
BASE_FPS == 12
MIN_FPS == 2

Max(a, b) == IF a >= b THEN a ELSE b
Min(a, b) == IF a <= b THEN a ELSE b

START_FPS == Max(MIN_FPS, BASE_FPS \div 5)

UP == <<0, -1>>
DOWN == <<0, 1>>
LEFT == <<-1, 0>>
RIGHT == <<1, 0>>
Dirs == {UP, DOWN, LEFT, RIGHT}

\* the value of food when no cell is free (null in the source)
Null == <<>>

VARIABLES
    snake,          \* sequence of cells, head first
    dir,            \* committed direction
    pendingDir,     \* direction latched by input, committed by the next tick
    food,           \* a cell, or Null
    score,
    obstacles,      \* set of string keys "x,y"
    paused, gameOver, win, onMenu,
    fps,
    deathReason,
    playedGameOver,
    musicMuted,
    actx,           \* TRUE when the AudioContext has been created
    audioOk,        \* environment: does new AudioCtx() succeed
    rafPending,     \* TRUE while loop is scheduled with requestAnimationFrame
    tickModes,      \* history: the modes in which tick() has been invoked
    musicGain,      \* target of musicGain.gain in hundredths, 0 without a node
    resumePending,  \* calls of musicPlay() suspended at await actx.resume()
    jingleTimers    \* pending timeouts of line 376

vars == <<snake, dir, pendingDir, food, score, obstacles, paused, gameOver, win,
          onMenu, fps, deathReason, playedGameOver, musicMuted, actx, audioOk,
          rafPending, tickModes, musicGain, resumePending, jingleTimers>>

\* ---- grid ----
Cells == (0 .. GRID_W - 1) \X (0 .. GRID_H - 1)
Interior == (APPLE_MARGIN .. GRID_W - 1 - APPLE_MARGIN) \X
            (APPLE_MARGIN .. GRID_H - 1 - APPLE_MARGIN)

\* a bounds test that lets one column and one row too many through
InGrid_inclusive(x, y) == 0 <= x /\ x <= GRID_W /\ 0 <= y /\ y <= GRID_H

\* line 495
InGrid(x, y) == 0 <= x /\ x < GRID_W /\ 0 <= y /\ y < GRID_H

\* `${x},${y}`
Key(c) == ToString(c[1]) \o "," \o ToString(c[2])

SeqCells(s) == {s[i] : i \in 1 .. Len(s)}

cellsToKey(cells) == {Key(cells[i]) : i \in 1 .. Len(cells)}

\* key.split(',').map(Number), for the keys of grid cells
CellOfKey(k) == CHOOSE c \in Cells : Key(c) = k

\* ---- placement ----
\* candidates taken from the whole grid, the margin forgotten
Candidates_noMargin(excludeSet) == {c \in Cells : Key(c) \notin excludeSet}

\* lines 69-75: the interior cells whose key is not excluded
Candidates(excludeSet) == {c \in Interior : Key(c) \notin excludeSet}

\* an index one past the end of candidates: undefined, which tick() reads as
\* no food
randomEmptyCell_pastEnd(excludeSet) == Candidates(excludeSet) \cup {Null}

\* every value randomEmptyCell can return
randomEmptyCell(excludeSet) ==
    IF Candidates(excludeSet) = {} THEN {Null} ELSE Candidates(excludeSet)

\* obstacles drawn without looking at excludeSet
spawnObstacles_anywhere(n, excludeSet) ==
    {{Key(c) : c \in T} : T \in {S \in SUBSET Interior : Cardinality(S) = Min(n, Cardinality(Interior))}}

\* a spawn that ignores the requested count
spawnObstacles_uncapped(n, excludeSet) ==
    {{Key(c) : c \in Candidates(excludeSet)}}

\* every set spawnObstacles can return
spawnObstacles(n, excludeSet) ==
    LET all == Candidates(excludeSet)
        k == Min(n, Cardinality(all))
    IN {{Key(c) : c \in T} : T \in {S \in SUBSET all : Cardinality(S) = k}}

\* ---- mode ----
Mode == IF onMenu THEN "Menu"
        ELSE IF win THEN "Win"
        ELSE IF gameOver THEN "GameOver"
        ELSE IF paused THEN "Paused"
        ELSE "Playing"

\* ---- audio collaborator (what the game observes of it) ----
\* actx after ensureAudio(): new AudioCtx() throws inside the try when audio
\* is unavailable and actx stays null
ensureAudio(a) == a \/ audioOk

\* actx after the synchronous part of musicPlay()
musicPlay(a, muted) == IF muted THEN a ELSE ensureAudio(a)

\* the target musicPlay() sets once actx.resume() has settled, and the
\* target musicPause() sets; both do nothing without the gain node
MusicOn == 6
musicPause(a, v) == IF a THEN 0 ELSE v

\* a handler that calls musicPlay() when call holds: the part up to the
\* await runs in the handler; with actx null the TypeError of actx.resume is
\* caught and the function ends without a suspension
callMusicPlay(call) ==
    /\ actx' = IF call THEN musicPlay(actx, FALSE) ELSE actx
    /\ resumePending' = resumePending + (IF call /\ ensureAudio(actx) THEN 1 ELSE 0)
    /\ resumePending' <= MaxResumes

\* ---- reset ----
StartCell == <<GRID_W \div 2, GRID_H \div 2>>
StartSnake == <<StartCell, <<StartCell[1] - 1, StartCell[2]>>,
                <<StartCell[1] - 2, StartCell[2]>>>>

\* a reset that keeps the obstacles of the previous session
resetGame_keepObstacles ==
    /\ snake' = StartSnake
    /\ dir' = RIGHT
    /\ food' \in randomEmptyCell(cellsToKey(StartSnake))
    /\ score' = 0
    /\ pendingDir' = RIGHT
    /\ obstacles' = obstacles

resetGame ==
    /\ snake' = StartSnake
    /\ dir' = RIGHT
    /\ food' \in randomEmptyCell(cellsToKey(StartSnake))
    /\ score' = 0
    /\ pendingDir' = RIGHT
    /\ obstacles' = {}

\* the statement list shared by the confirm key (line 202) and the start
\* button (line 488)
StartSession ==
    /\ onMenu' = FALSE
    /\ resetGame
    /\ paused' = FALSE
    /\ gameOver' = FALSE
    /\ win' = FALSE
    /\ fps' = START_FPS
    /\ callMusicPlay(~musicMuted)
    /\ UNCHANGED <<deathReason, playedGameOver, musicMuted, audioOk, rafPending,
                   tickModes, musicGain, jingleTimers>>

\* the restart key in GameOver or Win (line 207)
RestartSession ==
    /\ onMenu' = FALSE
    /\ resetGame
    /\ gameOver' = FALSE
    /\ win' = FALSE
    /\ paused' = FALSE
    /\ fps' = START_FPS
    /\ playedGameOver' = FALSE
    /\ callMusicPlay(~musicMuted)
    /\ UNCHANGED <<deathReason, musicMuted, audioOk, rafPending, tickModes,
                   musicGain, jingleTimers>>

\* ---- keydown handler ----
\* one representative per group of keys the handler treats alike
Keys == {" ", "enter", "r", "m", "-", "+",
         "ArrowUp", "ArrowDown", "ArrowLeft", "ArrowRight"}

TogglePause ==
    /\ paused' = ~paused
    /\ callMusicPlay(paused /\ ~musicMuted)
    /\ musicGain' = IF ~paused THEN musicPause(actx, musicGain) ELSE musicGain
    /\ UNCHANGED <<snake, dir, pendingDir, food, score, obstacles, gameOver, win,
                   onMenu, fps, deathReason, playedGameOver, musicMuted, audioOk,
                   rafPending, tickModes, jingleTimers>>

musicToggleMute ==
    /\ musicMuted' = ~musicMuted
    /\ callMusicPlay(musicMuted /\ ~paused /\ ~onMenu /\ ~gameOver /\ ~win)
    /\ musicGain' = IF ~musicMuted THEN musicPause(actx, musicGain) ELSE musicGain
    /\ UNCHANGED <<snake, dir, pendingDir, food, score, obstacles, paused,
                   gameOver, win, onMenu, fps, deathReason, playedGameOver,
                   audioOk, rafPending, tickModes, jingleTimers>>

SetFps(v) ==
    /\ fps' = v
    /\ UNCHANGED <<snake, dir, pendingDir, food, score, obstacles, paused,
                   gameOver, win, onMenu, deathReason, playedGameOver,
                   musicMuted, actx, audioOk, rafPending, tickModes, musicGain,
                   resumePending, jingleTimers>>

\* line 212 and line 213: the speed after a manual -1 / +1
slower(v) == Max(MIN_FPS, v - 1)
faster(v) == Min(MAX_FPS, v + 1)

\* a handler that latches every direction key
turn_unchecked(key, d, pd) ==
    IF key = "ArrowUp" THEN <<0, -1>>
    ELSE IF key = "ArrowDown" THEN <<0, 1>>
    ELSE IF key = "ArrowLeft" THEN <<-1, 0>>
    ELSE IF key = "ArrowRight" THEN <<1, 0>>
    ELSE pd

\* lines 214-218: the pending direction after a direction key
turn(key, d, pd) ==
    IF key = "ArrowUp" THEN (IF ~(d[1] = 0 /\ d[2] = 1) THEN <<0, -1>> ELSE pd)
    ELSE IF key = "ArrowDown" THEN (IF ~(d[1] = 0 /\ d[2] = -1) THEN <<0, 1>> ELSE pd)
    ELSE IF key = "ArrowLeft" THEN (IF ~(d[1] = 1 /\ d[2] = 0) THEN <<-1, 0>> ELSE pd)
    ELSE IF key = "ArrowRight" THEN (IF ~(d[1] = -1 /\ d[2] = 0) THEN <<1, 0>> ELSE pd)
    ELSE pd

SetPendingDir(key) ==
    /\ pendingDir' = turn(key, dir, pendingDir)
    /\ UNCHANGED <<snake, dir, food, score, obstacles, paused, gameOver, win,
                   onMenu, fps, deathReason, playedGameOver, musicMuted, actx,
                   audioOk, rafPending, tickModes, musicGain, resumePending,
                   jingleTimers>>

\* an early return that forgets Win
terminalReturn_gameOverOnly == gameOver

\* line 206: the handler returns here unless the key is the restart key
terminalReturn == gameOver \/ win

keydown(key) ==
    IF onMenu
    THEN IF key = " " \/ key = "enter" THEN StartSession ELSE UNCHANGED vars
    ELSE IF terminalReturn
    THEN IF key = "r" THEN RestartSession ELSE UNCHANGED vars
    ELSE IF key = " " THEN TogglePause
    ELSE IF key = "m" THEN musicToggleMute
    ELSE IF key = "-" THEN SetFps(slower(fps))
    ELSE IF key = "+" THEN SetFps(faster(fps))
    ELSE SetPendingDir(key)

\* ---- mouseup handler: a click inside the start button ----
mouseup == IF ~onMenu THEN UNCHANGED vars ELSE StartSession

\* ---- tick ----
\* the state tick() reads and writes, as a record, so that the loop can run
\* several ticks in one frame; threw is set when an exception leaves tick()
Game == [snake |-> snake, dir |-> dir, pendingDir |-> pendingDir, food |-> food,
         score |-> score, obstacles |-> obstacles, gameOver |-> gameOver,
         win |-> win, fps |-> fps, deathReason |-> deathReason, actx |-> actx,
         threw |-> FALSE, tickModes |-> tickModes, musicGain |-> musicGain]

ModeOf(g) == IF onMenu THEN "Menu"
             ELSE IF g.win THEN "Win"
             ELSE IF g.gameOver THEN "GameOver"
             ELSE IF paused THEN "Paused"
             ELSE "Playing"

die(g, d, reason) ==
    [g EXCEPT !.dir = d, !.gameOver = TRUE, !.deathReason = reason]

\* a self-collision test that skips one cell too many
bodyToCheck_short(sn, willEat) ==
    IF willEat THEN sn ELSE SubSeq(sn, 1, Len(sn) - 2)

\* a self-collision test that never skips the tail
bodyToCheck_whole(sn, willEat) == sn

\* line 502: the cells the new head is tested against
bodyToCheck(sn, willEat) == IF willEat THEN sn ELSE SubSeq(sn, 1, Len(sn) - 1)

\* playEatSfx(): ensureAudio(), then actx.sampleRate is read: a TypeError when
\* actx is still null; otherwise the music is ducked and its gain is scheduled
\* back to 0.06 (lines 338-342), whatever musicMuted and paused are
playEatSfx(g) ==
    [g EXCEPT !.actx = ensureAudio(g.actx), !.threw = ~ensureAudio(g.actx),
              !.musicGain = IF ensureAudio(g.actx) THEN MusicOn ELSE @]

\* an eat that forgets the clamp
speedUp_unclamped(v) == v + 1

\* line 511: the speed after an eat
speedUp(v) == Min(MAX_FPS, v + 1)

\* an eating branch that pops the tail when no food cell is left
eat_trimsOnWin(g, d, sn) ==
    LET excl == cellsToKey(sn)
        grown == [g EXCEPT !.dir = d, !.snake = sn, !.score = g.score + 1]
    IN UNION {
         IF f = Null
         THEN {[grown EXCEPT !.food = Null, !.win = TRUE,
                             !.snake = SubSeq(sn, 1, Len(sn) - 1)]}
         ELSE {playEatSfx([grown EXCEPT !.food = f,
                                        !.fps = speedUp(g.fps),
                                        !.obstacles = obs])
               : obs \in spawnObstacles(MaxObstacles, excl \cup {Key(f)})}
         : f \in randomEmptyCell(excl \cup g.obstacles)}

\* an eating branch without the test of line 510
eat_noWin(g, d, sn) ==
    LET excl == cellsToKey(sn)
        grown == [g EXCEPT !.dir = d, !.snake = sn, !.score = g.score + 1]
    IN UNION {
         {playEatSfx([grown EXCEPT !.food = f,
                                   !.fps = speedUp(g.fps),
                                   !.obstacles = obs])
          : obs \in spawnObstacles(MaxObstacles,
                                    excl \cup (IF f = Null THEN {} ELSE {Key(f)}))}
         : f \in randomEmptyCell(excl \cup g.obstacles)}

\* lines 506-516: the outcomes of the eating branch, sn being the grown snake
eat(g, d, sn) ==
    LET excl == cellsToKey(sn)
        grown == [g EXCEPT !.dir = d, !.snake = sn, !.score = g.score + 1]
    IN UNION {
         IF f = Null
         THEN {[grown EXCEPT !.food = Null, !.win = TRUE]}
         ELSE {playEatSfx([grown EXCEPT !.food = f,
                                        !.fps = speedUp(g.fps),
                                        !.obstacles = obs])
               : obs \in spawnObstacles(MaxObstacles, excl \cup {Key(f)})}
         : f \in randomEmptyCell(excl \cup g.obstacles)}

\* every state one call of tick() can leave
tick(g) ==
    LET d == g.pendingDir
        head == g.snake[1]
        nx == head[1] + d[1]
        ny == head[2] + d[2]
        newHead == <<nx, ny>>
        willEat == g.food /= Null /\ nx = g.food[1] /\ ny = g.food[2]
    IN IF ~InGrid(nx, ny) THEN {die(g, d, "Hit wall")}
       ELSE IF Key(newHead) \in g.obstacles THEN {die(g, d, "Hit obstacle")}
       ELSE IF newHead \in SeqCells(bodyToCheck(g.snake, willEat))
       THEN {die(g, d, "Hit self")}
       ELSE IF willEat THEN eat(g, d, <<newHead>> \o g.snake)
       ELSE {[g EXCEPT !.dir = d,
                       !.snake = SubSeq(<<newHead>> \o g.snake, 1, Len(g.snake))]}

\* ---- frame loop ----
\* a gate that forgets the pause flag
tickGate_noPause(g) == ~onMenu /\ ~g.gameOver /\ ~g.win

\* line 358: the condition under which a drained step calls tick()
tickGate(g) == ~onMenu /\ ~paused /\ ~g.gameOver /\ ~g.win

\* one iteration of the while loop of line 356
step(g) ==
    IF tickGate(g)
    THEN tick([g EXCEPT !.tickModes = @ \cup {ModeOf(g)}])
    ELSE {g}

\* the states n drained steps can leave; an exception ends the loop
RECURSIVE drain(_, _)
drain(g, n) ==
    IF n = 0 \/ g.threw \/ g.score >= MaxScore THEN {g}
    ELSE UNION {drain(h, n - 1) : h \in step(g)}

\* lines 363-368: drawFood(food) destructures food, a TypeError when it is
\* null
renderThrows(g) == ~onMenu /\ ~g.win /\ g.food = Null

\* lines 371-373: this frame is the first to render the GameOver of g
firstGameOverFrame(g) ==
    ~g.threw /\ ~renderThrows(g) /\ ~onMenu /\ g.gameOver /\ ~playedGameOver

\* one animation frame that drains n steps; the loop is rescheduled by the
\* last statement of loop(), which an exception skips
loop(n) ==
    /\ rafPending
    /\ resumePending + jingleTimers > 0 => n <= MaxPendingSteps
    /\ \E g \in drain(Game, n) :
        /\ musicGain' = IF firstGameOverFrame(g)
                        THEN musicPause(g.actx, g.musicGain) ELSE g.musicGain
        /\ jingleTimers' = jingleTimers + (IF firstGameOverFrame(g) THEN 1 ELSE 0)
        /\ jingleTimers' <= MaxTimers
        /\ snake' = g.snake
        /\ dir' = g.dir
        /\ pendingDir' = g.pendingDir
        /\ food' = g.food
        /\ score' = g.score
        /\ obstacles' = g.obstacles
        /\ gameOver' = g.gameOver
        /\ win' = g.win
        /\ fps' = g.fps
        /\ deathReason' = g.deathReason
        /\ actx' = g.actx
        /\ tickModes' = g.tickModes
        /\ rafPending' = (~g.threw /\ ~renderThrows(g))
        /\ playedGameOver' =
             IF ~g.threw /\ ~renderThrows(g) /\ ~onMenu /\ g.gameOver
             THEN TRUE ELSE playedGameOver
    /\ UNCHANGED <<paused, onMenu, musicMuted, audioOk, resumePending>>

\* ---- callbacks of the audio code ----
\* the rest of musicPlay() after await actx.resume(): line 269, which tests
\* neither musicMuted nor the mode
musicResumed ==
    /\ resumePending > 0
    /\ resumePending' = resumePending - 1
    /\ musicGain' = IF actx THEN MusicOn ELSE musicGain
    /\ UNCHANGED <<snake, dir, pendingDir, food, score, obstacles, paused,
                   gameOver, win, onMenu, fps, deathReason, playedGameOver,
                   musicMuted, actx, audioOk, rafPending, tickModes,
                   jingleTimers>>

\* playGameOverJingle() gets as far as starting its oscillator: not muted,
\* and actx.createOscillator() of line 292 has a context to be called on
jingleStarts == ~musicMuted /\ ensureAudio(actx)

\* the timeout of line 376 fires: playGameOverJingle().  sfxOsc and sfxGain
\* are written here and read by stopSfx() only
jingleTimeout ==
    /\ jingleTimers > 0
    /\ jingleTimers' = jingleTimers - 1
    /\ actx' = IF musicMuted THEN actx ELSE ensureAudio(actx)
    /\ UNCHANGED <<snake, dir, pendingDir, food, score, obstacles, paused,
                   gameOver, win, onMenu, fps, deathReason, playedGameOver,
                   musicMuted, audioOk, rafPending, tickModes, musicGain,
                   resumePending>>

\* ---- specification ----
\* the script's top level: resetGame(); onMenu = true; requestAnimationFrame(loop)
Init ==
    /\ snake = StartSnake
    /\ dir = RIGHT
    /\ food \in randomEmptyCell(cellsToKey(StartSnake))
    /\ score = 0
    /\ pendingDir = RIGHT
    /\ obstacles = {}
    /\ paused = FALSE
    /\ gameOver = FALSE
    /\ win = FALSE
    /\ onMenu = TRUE
    /\ fps = START_FPS
    /\ deathReason = ""
    /\ playedGameOver = FALSE
    /\ musicMuted = FALSE
    /\ actx = FALSE
    /\ audioOk \in BOOLEAN
    /\ rafPending = TRUE
    /\ tickModes = {}
    /\ musicGain = 0
    /\ resumePending = 0
    /\ jingleTimers = 0

Next ==
    \/ \E key \in Keys : keydown(key)
    \/ mouseup
    \/ \E n \in 0 .. MaxSteps : loop(n)
    \/ musicResumed
    \/ jingleTimeout

Spec == Init /\ [][Next]_vars

\* ---- properties ----
HeadCell == snake[1]
NextHead == <<HeadCell[1] + pendingDir[1], HeadCell[2] + pendingDir[2]>>
WallAhead == NextHead \notin Cells

\* the structural state every reset leaves, stated without the model's reset
Centre == <<GRID_W \div 2, GRID_H \div 2>>
ResetShape ==
    /\ snake = <<Centre, <<Centre[1] - 1, Centre[2]>>, <<Centre[1] - 2, Centre[2]>>>>
    /\ dir = <<1, 0>>
    /\ pendingDir = <<1, 0>>
    /\ obstacles = {}
    /\ score = 0
    /\ fps = START_FPS
    /\ food \in Cells
    /\ food \notin SeqCells(snake)

\* C1: in every reachable state the cells of Snake are pairwise distinct.
C1_SnakeDistinct ==
    \A i, j \in 1 .. Len(snake) : i /= j => snake[i] /= snake[j]

\* a grown snake that has been moved by ticks and has turned back next to
\* its own body
C1_Witness ==
    /\ Len(snake) >= 5
    /\ \E i \in 4 .. Len(snake) :
         (snake[i][1] - HeadCell[1]) * (snake[i][1] - HeadCell[1])
           + (snake[i][2] - HeadCell[2]) * (snake[i][2] - HeadCell[2]) = 1

\* C2: in every reachable state PendingDirection is not the exact opposite of
\* the committed Direction.
C2_PendingNotOpposite == pendingDir /= <<0 - dir[1], 0 - dir[2]>>

\* a direction latched while Paused, after the snake has turned
C2_Witness == paused /\ pendingDir /= dir /\ dir /= RIGHT

\* C3 as stated: whenever Mode is Win every cell of the grid is a Snake cell.
C3_WinBoardFull == Mode = "Win" => SeqCells(snake) = Cells

\* C3 as amended: whenever Mode is Win, Food is absent and every interior
\* cell is a Snake cell or an Obstacle cell.
C3_WinInteriorFull ==
    Mode = "Win" =>
        /\ food = Null
        /\ \A c \in Interior : c \in SeqCells(snake) \/ Key(c) \in obstacles

C3_Witness == Mode = "Win" /\ obstacles /= {}

\* C4: with audio unavailable the frame loop keeps being rescheduled, so that
\* later ticks still run.
C4_LoopSurvivesAudioFailure == ~audioOk => rafPending

\* C5: in every reachable state Snake, Food (when present) and Obstacles are
\* pairwise disjoint.
C5_Disjoint ==
    /\ \A i \in 1 .. Len(snake) : Key(snake[i]) \notin obstacles
    /\ food /= Null => food \notin SeqCells(snake) /\ Key(food) \notin obstacles

\* obstacles and food on the board while the snake has moved on after the eat
C5_Witness ==
    /\ obstacles /= {}
    /\ food /= Null
    /\ Mode = "Playing"
    /\ \E c \in SeqCells(snake) : c \notin Interior

\* C6: Speed stays within [MIN_FPS, MAX_FPS] in every reachable state.
C6_SpeedInRange == MIN_FPS <= fps /\ fps <= MAX_FPS

\* more eats than the range has room for: the clamp of an eat has been used
\* or a manual slow-down has intervened
C6_Witness == fps = MAX_FPS /\ START_FPS + score > MAX_FPS

\* what Mode is computed from, and the session state of the claims
ModeFlags == <<onMenu, paused, gameOver, win>>
Board == <<snake, food, obstacles, score>>

\* a step that enters Playing through a full reset
EntersByReset == Mode /= "Playing" /\ Mode' = "Playing" /\ ResetShape'

TerminalStep ==
    Mode \in {"GameOver", "Win"} =>
        UNCHANGED <<ModeFlags, Board, fps, pendingDir>> \/ EntersByReset

\* C7: GameOver and Win are terminal: no tick is invoked in them, and a step
\* taken in them leaves Mode, Snake, Food, Obstacles, Score, Speed and
\* PendingDirection unchanged unless it enters Playing through a full reset.
C7_TerminalUntilRestart ==
    [][TerminalStep]_vars /\ [](tickModes \cap {"GameOver", "Win"} = {})

\* a Win in a session entered by the restart key from a rendered GameOver
C7_Witness == Mode = "Win" /\ deathReason /= "" /\ obstacles /= {}

SuspendedStep ==
    /\ Mode = "Paused" => UNCHANGED Board
    /\ Mode = "Menu" => UNCHANGED Board \/ EntersByReset

BoardStep ==
    ~(UNCHANGED Board) =>
        (Mode = "Playing" /\ "Playing" \in tickModes') \/ EntersByReset

InputStep ==
    /\ paused' /= paused => UNCHANGED <<Board, fps, pendingDir, dir>>
    /\ pendingDir' /= pendingDir =>
         UNCHANGED <<ModeFlags, Board, fps, dir>> \/ EntersByReset
    /\ (fps' /= fps /\ score' = score) =>
         UNCHANGED <<ModeFlags, Board, pendingDir, dir>> \/ EntersByReset

\* C8: Snake, Food, Obstacles and Score change only by a tick invoked in
\* Playing or by a reset; no tick is invoked in Menu or Paused; the pause
\* toggle leaves them unchanged; a direction input writes only
\* PendingDirection and a speed input only Speed.
C8_BoardChangesOnlyByTickOrReset ==
    /\ [][SuspendedStep /\ BoardStep /\ InputStep]_vars
    /\ [](tickModes \cap {"Menu", "Paused"} = {})

\* paused in mid-game with a direction and a speed input received since
C8_Witness ==
    /\ Mode = "Paused"
    /\ score >= 1
    /\ pendingDir /= dir
    /\ fps /= Min(MAX_FPS, START_FPS + score)

ResetStep ==
    (Mode \in {"Menu", "GameOver", "Win"} /\ Mode' = "Playing") => ResetShape'

\* C9: the state at load and every step that enters Playing from Menu,
\* GameOver or Win have the reset shape: the 3-cell horizontal snake with its
\* head at the grid centre, Direction and PendingDirection RIGHT, no
\* obstacles, Score 0, Speed START_FPS, and a Food cell that is not a Snake
\* cell.
C9_ResetShape == [](Mode = "Menu" => ResetShape) /\ [][ResetStep]_vars

\* Playing again in the reset shape, restarted from a GameOver that a frame
\* had rendered
C9_Witness ==
    /\ Mode = "Playing"
    /\ ResetShape
    /\ deathReason = "Hit obstacle"
    /\ ~playedGameOver

WallStep ==
    (/\ Mode = "Playing"
     /\ WallAhead
     /\ score < MaxScore
     /\ \E n \in 1 .. MaxSteps : loop(n))
    => (/\ Mode' = "GameOver"
        /\ deathReason' = "Hit wall"
        /\ UNCHANGED <<Board, fps>>)

\* C10: a frame that drains at least one step in Playing with the new head
\* outside the grid ends in GameOver with reason "Hit wall" and leaves Snake,
\* Food, Obstacles, Score and Speed unchanged.
C10_HitWall == [][WallStep]_vars

\* a grown snake stopped at the wall it ran into, obstacles on the board
C10_Witness ==
    /\ Mode = "GameOver"
    /\ deathReason = "Hit wall"
    /\ WallAhead
    /\ Len(snake) >= 4
    /\ obstacles /= {}

\* ---- single ticks ----
\* the step is a frame that calls tick() exactly once, in Playing, from a
\* state in which ahead holds
OneTick(ahead) == Mode = "Playing" /\ score < MaxScore /\ ahead /\ loop(1)

WillEat == food /= Null /\ NextHead = food
ObstacleAhead == \E k \in obstacles : k = Key(NextHead)
\* the cells line 502 tests the new head against
Tested ==
    {snake[i] : i \in 1 .. (IF WillEat THEN Len(snake) ELSE Len(snake) - 1)}
TailAhead == ~WillEat /\ NextHead = snake[Len(snake)]
Collides == WallAhead \/ ObstacleAhead \/ NextHead \in Tested

SelfStep ==
    OneTick(~WallAhead /\ ~ObstacleAhead) =>
        /\ (Mode' = "GameOver" /\ deathReason' = "Hit self") <=> NextHead \in Tested
        /\ gameOver' <=> NextHead \in Tested
        /\ TailAhead => Mode' = "Playing" /\ snake'[1] = NextHead
        /\ (\E i \in 1 .. Len(snake) - 1 : snake[i] = NextHead) =>
              Mode' = "GameOver" /\ UNCHANGED Board

\* C11: a tick whose new head is in bounds and not an obstacle ends in
\* GameOver with reason "Hit self" exactly when the new head is a tested
\* Snake cell (the whole Snake on an eat, the Snake without its last cell
\* otherwise): a move into the cell the tail vacates is survived, a move
\* into any other body cell ends the game.
C11_HitSelf == [][SelfStep]_vars

\* stopped by a non-eating move into a body cell that is not the tail
C11_Witness ==
    /\ Mode = "GameOver"
    /\ deathReason = "Hit self"
    /\ ~WillEat
    /\ \E i \in 2 .. Len(snake) - 1 : snake[i] = NextHead

\* the interior cells an eat may place the new Food on: outside the grown
\* Snake and the Obstacles of before the eat
LegalFood ==
    {c \in Interior : c /= NextHead /\ c \notin SeqCells(snake)
                      /\ (\A k \in obstacles : k /= Key(c))}
\* the interior cells that are neither a Snake cell nor the Food cell
Free == {c \in Interior : c \notin SeqCells(snake) /\ c /= food}

EatStep ==
    OneTick(WillEat /\ ~Collides /\ LegalFood /= {}) =>
        /\ score' = score + 1
        /\ fps' = Min(MAX_FPS, fps + 1)
        /\ food' \in Interior
        /\ food' /= food
        /\ obstacles' \subseteq {Key(c) : c \in Free'}
        /\ Cardinality(obstacles') = Min(MaxObstacles, Cardinality(Free'))
        /\ Cardinality(obstacles') <= MaxObstacles

\* C12: an eat tick for which a legal Food cell exists adds 1 to Score, sets
\* Speed to min(MAX_FPS, Speed + 1), places the new Food on another cell than
\* the eaten one, and replaces Obstacles by exactly min(MaxObstacles, number
\* of interior cells that are neither new Snake nor new Food) cells drawn
\* from those cells.
C12_Eat == [][EatStep]_vars

\* after a second eat, with the cap reached and a free interior cell left over
C12_Witness ==
    /\ score >= 2
    /\ HeadCell \in Interior
    /\ food /= Null
    /\ Cardinality(obstacles) = MaxObstacles
    /\ \E c \in Free : Key(c) \notin obstacles

MoveStep ==
    OneTick(~Collides) =>
        /\ WillEat => snake' = <<NextHead>> \o snake
        /\ ~WillEat =>
             snake' = <<NextHead>> \o SubSeq(snake, 1, Len(snake) - 1)
        /\ Len(snake') = Len(snake) + (IF WillEat THEN 1 ELSE 0)

\* C13: a tick that ends without a collision grows Snake by exactly one cell
\* if it eats, the eat that ends in Win included, and otherwise keeps its
\* length, the new head prepended and the old tail removed.
C13_Growth == [][MoveStep]_vars

\* won by an eat: the snake has kept the cell every eat has added
C13_Witness ==
    /\ Mode = "Win"
    /\ Len(snake) = Len(StartSnake) + score
    /\ HeadCell \in Interior

InMargin(c) ==
    /\ 1 <= c[1] /\ c[1] <= GRID_W - 2
    /\ 1 <= c[2] /\ c[2] <= GRID_H - 2

\* C14: in every reachable state Food, when present, and every Obstacle lie
\* in the interior: 1 <= x <= GRID_W - 2 and 1 <= y <= GRID_H - 2.
C14_InteriorPlacement ==
    /\ food /= Null => InMargin(food)
    /\ \A c \in Cells : Key(c) \in obstacles => InMargin(c)
    /\ \A k \in obstacles : \E c \in Cells : Key(c) = k

\* food and an obstacle placed by an eat, the snake itself on the border
C14_Witness ==
    /\ food /= Null
    /\ obstacles /= {}
    /\ score >= 2
    /\ ~InMargin(HeadCell)

\* C17: Food is absent exactly when Mode is Win, so that the renderer, which
\* draws Food in every mode but Menu and Win, and a tick in Playing always
\* have a Food cell.
C17_FoodUnlessWin ==
    /\ food = Null <=> Mode = "Win"
    /\ Mode \notin {"Menu", "Win"} => food \in Cells
    /\ ~renderThrows(Game)

\* a Win, Food absent, reached in a session started by the restart key
C17_Witness ==
    /\ Mode = "Win"
    /\ food = Null
    /\ playedGameOver = FALSE
    /\ deathReason /= ""

\* ---- audio ----
JingleStep == (jingleTimeout /\ jingleStarts) => Mode = "GameOver"

\* C15: the game-over jingle starts only while Mode is GameOver: however the
\* delayed callback interleaves with the restart key, the jingle of a
\* finished session never begins once the game is back in Playing.
C15_JingleOnlyInGameOver == [][JingleStep]_vars

\* C16: while music is muted the target of the ambient music gain is zero,
\* whatever ticks, eats, pause toggles and restarts have happened since the
\* mute toggle.
C16_SilentWhileMuted == musicMuted => musicGain = 0

====
